---- MODULE Spec2Model ----
(***************************************************************************)
(* A model of @gradecam/gridfs: the GridFSBucket adapter (bucket.ts), the  *)
(* File Record schema (schema.ts) and the pluginGridable plugin            *)
(* (plugin-gridable.ts, util-plugin.ts) on top of the MongoDB GridFS       *)
(* driver.  One "block" of content stands for one GridFS chunk.            *)
(***************************************************************************)
EXTENDS Integers, Sequences, FiniteSets, TLC

VARIABLES
  connected,  \* the mongoose collection has a live database handle (coll.conn.db)
  nextId,     \* the next ObjectId `new mongodb.ObjectId()` yields
  files,      \* the bucket's `<bucket>.files` collection, in upload order
  chunks,     \* the bucket's `<bucket>.chunks` collection
  docs,       \* the mongoose documents the caller holds
  op,         \* per caller: the operation in flight (its arguments, position, result)
  written     \* history: id and content of every stored file whose write resolved

vars == <<connected, nextId, files, chunks, docs, op, written>>

----------------------------------------------------------------------------
(* Bounds *)

MaxIds == 3     \* ObjectIds one run may allocate (documents and files)
MaxLen == 2     \* blocks (chunks) of one written content
MaxName == 2    \* characters of a filename field value or function result

----------------------------------------------------------------------------
(* Values *)

Undefined == <<"undefined">>     \* JavaScript `undefined` where a string is expected
Null == <<"null">>               \* JavaScript `null` where a Buffer is expected

Blocks == {"x", "y"}
\* contents of 0..MaxLen blocks; the non-empty ones end in "y" and start with "x"
Contents == {c \in UNION {[1..n -> Blocks] : n \in 0..MaxLen} :
               \A i \in 1..Len(c) : c[i] = (IF i = Len(c) THEN "y" ELSE "x")}

Chars == {" ", "a"}
Strings == UNION {[1..n -> Chars] : n \in 0..MaxName}
FileNames == {<<"a">>, <<"b">>}

Min(a, b) == IF a < b THEN a ELSE b

Range(s) == {s[i] : i \in 1..Len(s)}

\* JavaScript `v || ''` on a string-or-undefined value
OrEmpty(v) == IF v = Undefined THEN <<>> ELSE v

RECURSIVE TrimLeft(_)
TrimLeft(s) == IF s # <<>> /\ Head(s) = " " THEN TrimLeft(Tail(s)) ELSE s

RECURSIVE TrimRight(_)
TrimRight(s) ==
  IF s # <<>> /\ s[Len(s)] = " " THEN TrimRight(SubSeq(s, 1, Len(s) - 1)) ELSE s

\* String.prototype.trim
Trim(s) == TrimRight(TrimLeft(s))

\* `${doc._id}.file`
IdFileName(id) == <<ToString(id), ".file">>

----------------------------------------------------------------------------
(* Errors *)

DEFAULT_BUCKET_NAME == "fs"

InvalidOptionsCode == 400
NotConnectedCode == 500
DuplicateKeyCode == 11000

NoRet == [status |-> "pending", name |-> "", code |-> 0, key |-> 0, val |-> <<>>]

Failure(status, name, code, key) ==
  [status |-> status, name |-> name, code |-> code, key |-> key, val |-> <<>>]

Resolved(v) == [status |-> "resolved", name |-> "", code |-> 0, key |-> 0, val |-> v]

Returned(v) == [status |-> "returned", name |-> "", code |-> 0, key |-> 0, val |-> v]

----------------------------------------------------------------------------
(* The storage driver's collections *)

FileIds == {files[i]._id : i \in 1..Len(files)}

FileOf(id) == CHOOSE f \in Range(files) : f._id = id

\* the size of a chunk, in blocks of content: each chunk holds one block
ChunkSize == 1

\* the time of the driver's `new Date()`, as a count that advances with the ids
\* handed out and the records stored
Now == nextId + Len(files)

\* the record the upload stream inserts into the files collection at its end
NewFile(id, filename, length, time) ==
  [_id |-> id, filename |-> filename, length |-> length, chunkSize |-> ChunkSize,
   uploadDate |-> time]

\* the files collection without the record `id`
WithoutFile(fs, id) == SelectSeq(fs, LAMBDA f : f._id # id)

\* the content the driver streams for a stored file: chunks 0..length-1 in order
ContentOf(f) ==
  [i \in 1..f.length |->
     (CHOOSE c \in chunks : c.files_id = f._id /\ c.n = i - 1).data]

\* ids of the records find({filename}) yields, in natural order
IdsByName(fs, name) ==
  LET m == SelectSeq(fs, LAMBDA f : f.filename = name)
  IN  [i \in 1..Len(m) |-> m[i]._id]

\* the newest revision with that filename (revision -1), 0 when there is none
NewestByName(name) ==
  LET ids == IdsByName(files, name)
  IN  IF ids = <<>> THEN 0 ELSE ids[Len(ids)]

\* cursor limit: 0 means no limit
Limited(ids, limit) ==
  IF limit = 0 THEN ids ELSE SubSeq(ids, 1, Min(limit, Len(ids)))

----------------------------------------------------------------------------
(* An operation in flight *)

IdleOp ==
  [kind |-> "none", pc |-> "idle", doc |-> 0,
   opts |-> [_id |-> 0, filename |-> <<>>], id |-> 0, filename |-> <<>>,
   byName |-> FALSE, data |-> <<>>, isBuffer |-> FALSE, n |-> 0, buf |-> <<>>,
   limit |-> 0, cursor |-> <<>>, deleted |-> <<>>, snap |-> <<>>,
   calls |-> <<>>, hadDb |-> TRUE, bucket |-> FALSE, doneThrows |-> FALSE,
   done |-> <<>>, ret |-> NoRet]

Callers == DOMAIN op

Idle(p) == op[p].pc = "idle"

Settled(o) == o.pc = "done"

----------------------------------------------------------------------------
(* GridFSBucket (bucket.ts) *)

InvalidOptions == Failure("thrown", "InvalidOptions", InvalidOptionsCode, 0)

NoStream == [ok |-> FALSE, call |-> "", id |-> 0, filename |-> <<>>]

\* createReadStream looking at the filename before the identifier
createReadStreamNameFirst(opts) ==
  IF OrEmpty(opts.filename) # <<>>
    THEN [ok |-> TRUE, call |-> "openDownloadStreamByName", id |-> 0,
          filename |-> opts.filename]
  ELSE IF opts._id # 0
    THEN [ok |-> TRUE, call |-> "openDownloadStream", id |-> opts._id,
          filename |-> <<>>]
  ELSE NoStream

\* GridFSBucket.createReadStream: which download the options open, or the error
createReadStream(opts) ==
  IF opts._id # 0
    THEN [ok |-> TRUE, call |-> "openDownloadStream", id |-> opts._id,
          filename |-> <<>>]
  ELSE IF OrEmpty(opts.filename) # <<>>
    THEN [ok |-> TRUE, call |-> "openDownloadStreamByName", id |-> 0,
          filename |-> opts.filename]
  ELSE NoStream

\* createWriteStream without its filename check
createWriteStreamUnchecked(opts, fresh) ==
  [ok |-> TRUE, call |-> "openUploadStreamWithId",
   id |-> IF opts._id = 0 THEN fresh ELSE opts._id, filename |-> opts.filename]

\* createWriteStream always taking a new identifier
createWriteStreamFreshId(opts, fresh) ==
  IF OrEmpty(opts.filename) = <<>>
    THEN NoStream
    ELSE [ok |-> TRUE, call |-> "openUploadStreamWithId", id |-> fresh,
          filename |-> opts.filename]

\* GridFSBucket.createWriteStream: the upload the options open (`fresh` is the
\* default `new mongodb.ObjectId()`), or the error
createWriteStream(opts, fresh) ==
  IF OrEmpty(opts.filename) = <<>>
    THEN NoStream
    ELSE [ok |-> TRUE, call |-> "openUploadStreamWithId",
          id |-> IF opts._id = 0 THEN fresh ELSE opts._id,
          filename |-> opts.filename]

\* `readStream.pipe(writeStream)` in the promise executor: a Buffer has no pipe
\* method, the TypeError thrown inside the executor rejects the promise
PipeFails(src) == src.isBuffer

TypeError == Failure("rejected", "TypeError", 0, 0)

\* the write options and sources a caller of the bucket passes
WriteOpts == [_id : 0..MaxIds, filename : FileNames \cup {<<>>, Undefined}]
ReadOpts == [_id : 0..MaxIds, filename : FileNames \cup {<<>>, Undefined}]
Sources == [isBuffer : BOOLEAN, data : Contents]

\* the part of a write shared by writeFile and the records' write: open the
\* upload stream and start piping the source into it
StartWrite(p, kind, d, opts, src, s) ==
  /\ nextId' = IF opts._id = 0 THEN nextId + 1 ELSE nextId
  /\ op' = [op EXCEPT ![p] =
       [IdleOp EXCEPT !.kind = kind, !.doc = d, !.opts = opts, !.id = s.id,
          !.filename = s.filename, !.data = src.data, !.isBuffer = src.isBuffer,
          !.snap = files, !.calls = <<s.call>>,
          !.pc = IF PipeFails(src) THEN "done" ELSE "piping",
          !.ret = IF PipeFails(src) THEN TypeError ELSE NoRet]]

\* GridFSBucket.writeFile(opts, readStream), up to the return of the promise
WriteFileCall(p, opts, src) ==
  /\ Idle(p) /\ connected
  /\ opts._id < nextId
  /\ LET s == createWriteStream(opts, nextId) IN
       IF ~s.ok
         THEN /\ op' = [op EXCEPT ![p] =
                   [IdleOp EXCEPT !.kind = "writeFile", !.opts = opts,
                      !.data = src.data, !.isBuffer = src.isBuffer,
                      !.snap = files, !.pc = "done", !.ret = InvalidOptions]]
              /\ UNCHANGED nextId
         ELSE /\ opts._id = 0 => nextId <= MaxIds
              /\ StartWrite(p, "writeFile", 0, opts, src, s)
  /\ UNCHANGED <<connected, files, chunks, docs, written>>

DuplicateKey(id) == Failure("rejected", "MongoError", DuplicateKeyCode, id)

\* the upload stream stores the next chunk; the chunks collection has a unique
\* index on (files_id, n)
UploadChunk(p) ==
  LET o == op[p] IN
  /\ o.pc = "piping" /\ o.n < Len(o.data)
  /\ IF \E c \in chunks : c.files_id = o.id /\ c.n = o.n
       THEN /\ op' = [op EXCEPT ![p].pc = "done", ![p].ret = DuplicateKey(o.id)]
            /\ UNCHANGED chunks
       ELSE /\ chunks' = chunks \cup
                 {[files_id |-> o.id, n |-> o.n, data |-> o.data[o.n + 1]]}
            /\ op' = [op EXCEPT ![p].n = o.n + 1]
  /\ UNCHANGED <<connected, nextId, files, docs, written>>

\* the source ended: the upload stream inserts the files document (unique _id)
\* and emits 'finish' with it
UploadEnd(p) ==
  LET o == op[p] IN
  /\ o.pc = "piping" /\ o.n = Len(o.data)
  /\ IF o.id \in FileIds
       THEN /\ op' = [op EXCEPT ![p].pc = "done", ![p].ret = DuplicateKey(o.id)]
            /\ UNCHANGED files
       ELSE /\ files' = Append(files,
                 NewFile(o.id, o.filename, Len(o.data), Now))
            /\ op' = [op EXCEPT ![p].pc = "finished"]
  /\ UNCHANGED <<connected, nextId, chunks, docs, written>>

\* writeFile's 'finish' handler: the timer resolves the promise with the file
WriteFileResolve(p) ==
  LET o == op[p] IN
  /\ o.kind = "writeFile" /\ o.pc = "finished"
  /\ op' = [op EXCEPT ![p].pc = "done", ![p].ret = Resolved(FileOf(o.id))]
  /\ written' = {w \in written : w.id # o.id} \cup {[id |-> o.id, data |-> o.data]}
  /\ UNCHANGED <<connected, nextId, files, chunks, docs>>

\* what stream.read() returns: everything buffered, null when nothing is
ReadBuffered(buf) == IF buf = <<>> THEN Null ELSE buf

\* GridFSBucket.readFile(opts), up to the return of the promise
ReadFileCall(p, opts) ==
  /\ Idle(p) /\ connected
  /\ opts._id < nextId
  /\ LET s == createReadStream(opts) IN
       op' = [op EXCEPT ![p] =
         IF s.ok
           THEN [IdleOp EXCEPT !.kind = "readFile", !.opts = opts, !.id = s.id,
                   !.filename = s.filename, !.byName = (s.id = 0),
                   !.calls = <<s.call>>, !.pc = "reading"]
           ELSE [IdleOp EXCEPT !.kind = "readFile", !.opts = opts, !.pc = "done",
                   !.ret = [InvalidOptions EXCEPT !.status = "rejected"]]]
  /\ UNCHANGED <<connected, nextId, files, chunks, docs, written>>

\* the file a download stream reads
Target(o) == IF o.byName THEN NewestByName(o.filename) ELSE o.id

\* the driver pushes the next chunk of the file into the download stream
Deliver(p) ==
  LET o == op[p] IN
  /\ o.pc = "reading"
  /\ Target(o) \in FileIds
  /\ o.n < FileOf(Target(o)).length
  /\ \E c \in chunks : c.files_id = Target(o) /\ c.n = o.n
  /\ op' = [op EXCEPT ![p].buf = Append(o.buf, ContentOf(FileOf(Target(o)))[o.n + 1]),
                      ![p].n = o.n + 1]
  /\ UNCHANGED <<connected, nextId, files, chunks, docs, written>>

\* readFile's timer: resolve(stream.read())
ReadFileResolve(p) ==
  LET o == op[p] IN
  /\ o.kind \in {"readFile", "docRead", "fileRead"} /\ o.pc = "reading"
  /\ op' = [op EXCEPT ![p].pc = "done", ![p].ret = Resolved(ReadBuffered(o.buf))]
  /\ UNCHANGED <<connected, nextId, files, chunks, docs, written>>

\* GridFSBucket.createReadStream(opts) called directly
CreateReadStreamCall(p, opts) ==
  /\ Idle(p) /\ connected
  /\ opts._id < nextId
  /\ LET s == createReadStream(opts) IN
       op' = [op EXCEPT ![p] =
         IF s.ok
           THEN [IdleOp EXCEPT !.kind = "createReadStream", !.opts = opts,
                   !.id = s.id, !.filename = s.filename, !.byName = (s.id = 0),
                   !.calls = <<s.call>>, !.pc = "done", !.ret = Returned(<<>>)]
           ELSE [IdleOp EXCEPT !.kind = "createReadStream", !.opts = opts,
                   !.pc = "done", !.ret = InvalidOptions]]
  /\ UNCHANGED <<connected, nextId, files, chunks, docs, written>>

\* GridFSBucket.createWriteStream(opts) called directly
CreateWriteStreamCall(p, opts) ==
  /\ Idle(p) /\ connected
  /\ opts._id < nextId
  /\ LET s == createWriteStream(opts, nextId) IN
       IF ~s.ok
         THEN /\ op' = [op EXCEPT ![p] =
                   [IdleOp EXCEPT !.kind = "createWriteStream", !.opts = opts,
                      !.pc = "done", !.ret = InvalidOptions]]
              /\ UNCHANGED nextId
         ELSE /\ opts._id = 0 => nextId <= MaxIds
              /\ nextId' = IF opts._id = 0 THEN nextId + 1 ELSE nextId
              /\ op' = [op EXCEPT ![p] =
                   [IdleOp EXCEPT !.kind = "createWriteStream", !.opts = opts,
                      !.id = s.id, !.filename = s.filename, !.calls = <<s.call>>,
                      !.pc = "done", !.ret = Returned(<<>>)]]
  /\ UNCHANGED <<connected, files, chunks, docs, written>>

NullFile ==
  [_id |-> 0, filename |-> <<>>, length |-> 0, chunkSize |-> 0, uploadDate |-> 0]

FileNotFound(id) == Failure("rejected", "FileNotFound", 0, id)

\* the driver's delete(id, callback): removes the files document and the chunks of
\* that id; the callback gets an error when there was no such files document
DeleteRemoves(fs, id) == WithoutFile(fs, id)

\* deleteById resolving without the id
deleteByIdResultNoId(id, found) == IF found THEN Resolved(0) ELSE FileNotFound(id)

\* deleteById resolving whatever the driver's delete called back with
deleteByIdResultLenient(id, found) == Resolved(id)

\* what deleteById's promise settles with when the driver's delete called back
deleteByIdResult(id, found) == IF found THEN Resolved(id) ELSE FileNotFound(id)

\* deleteByFilename forgetting the ids it deleted after the first
pushDeletedOnce(deleted, id) == IF deleted = <<>> THEN <<id>> ELSE deleted

\* deleteByFilename's `deleted.push(await this.deleteById(file._id))`
pushDeleted(deleted, id) == Append(deleted, id)

\* GridFSBucket.deleteById(_id), up to the return of the promise
DeleteByIdCall(p, id) ==
  /\ Idle(p) /\ connected
  /\ id \in 1..(nextId - 1)
  /\ op' = [op EXCEPT ![p] =
       [IdleOp EXCEPT !.kind = "deleteById", !.opts = [_id |-> id, filename |-> <<>>],
          !.id = id, !.snap = files, !.calls = <<"delete">>, !.pc = "deleting"]]
  /\ UNCHANGED <<connected, nextId, files, chunks, docs, written>>

\* the driver's delete completes and calls back
DeleteByIdDone(p) ==
  LET o == op[p] IN
  /\ o.kind \in {"deleteById", "fileDeleteById"} /\ o.pc = "deleting"
  /\ files' = DeleteRemoves(files, o.id)
  /\ chunks' = {c \in chunks : c.files_id # o.id}
  /\ written' = {w \in written : w.id # o.id}
  /\ op' = [op EXCEPT ![p].pc = "done",
                      ![p].ret = deleteByIdResult(o.id, o.id \in FileIds)]
  /\ UNCHANGED <<connected, nextId, docs>>

\* the find options a caller passes (limit 0: none)
Limits == 0..2

\* GridFSBucket.deleteByFilename(filename, opts), up to its first await
DeleteByFilenameCall(p, name, limit) ==
  /\ Idle(p) /\ connected
  /\ op' = [op EXCEPT ![p] =
       [IdleOp EXCEPT !.kind = "deleteByFilename",
          !.opts = [_id |-> 0, filename |-> name], !.filename = name,
          !.limit = limit, !.snap = files, !.calls = <<"find">>, !.pc = "find"]]
  /\ UNCHANGED <<connected, nextId, files, chunks, docs, written>>

\* the first cursor.next() runs the query: the cursor holds the matching records
DeleteByFilenameFetch(p) ==
  LET o == op[p] IN
  /\ o.kind = "deleteByFilename" /\ o.pc = "find"
  /\ op' = [op EXCEPT ![p].cursor = Limited(IdsByName(files, o.filename), o.limit),
                      ![p].pc = "iterating"]
  /\ UNCHANGED <<connected, nextId, files, chunks, docs, written>>

\* deleteByFilename going on to the next record when a delete failed
afterDeleteSkipping(o, r) ==
  IF r.status = "resolved"
    THEN [o EXCEPT !.cursor = Tail(o.cursor),
                   !.deleted = pushDeleted(o.deleted, r.val),
                   !.calls = Append(o.calls, "delete")]
    ELSE [o EXCEPT !.cursor = Tail(o.cursor),
                   !.calls = Append(o.calls, "delete")]

\* deleteByFilename after `await this.deleteById(file._id)` settled with r: the id
\* is pushed, or the rejection leaves the async function
afterDelete(o, r) ==
  IF r.status = "resolved"
    THEN [o EXCEPT !.cursor = Tail(o.cursor),
                   !.deleted = pushDeleted(o.deleted, r.val),
                   !.calls = Append(o.calls, "delete")]
    ELSE [o EXCEPT !.pc = "done", !.ret = r,
                   !.calls = Append(o.calls, "delete")]

\* one turn of the loop: cursor.next(), then deleteById of the record it yields;
\* the function returns `deleted` when the cursor is exhausted
DeleteByFilenameNext(p) ==
  LET o == op[p] IN
  /\ o.kind = "deleteByFilename" /\ o.pc = "iterating"
  /\ IF o.cursor = <<>>
       THEN /\ op' = [op EXCEPT ![p].pc = "done", ![p].ret = Resolved(o.deleted)]
            /\ UNCHANGED <<files, chunks, written>>
       ELSE LET id == Head(o.cursor)
                r == deleteByIdResult(id, id \in FileIds)
            IN  /\ files' = DeleteRemoves(files, id)
                /\ chunks' = {c \in chunks : c.files_id # id}
                /\ written' = {w \in written : w.id # id}
                /\ op' = [op EXCEPT ![p] = afterDelete(o, r)]
  /\ UNCHANGED <<connected, nextId, docs>>

\* findOne keeping the limit of its caller
findOneLimitKept(limit) == limit

\* findOne's `opts.limit = 1`
findOneLimit(limit) == 1

\* cursor.next(): the first record of the cursor, or null
cursorNext(cursor) == IF cursor = <<>> THEN NullFile ELSE FileOf(Head(cursor))

\* the ids of the records that match the query of a findById / findOne call
Found(o) ==
  IF o.kind = "findById"
    THEN IF o.id \in FileIds THEN <<o.id>> ELSE <<>>
    ELSE IdsByName(files, o.filename)

\* GridFSBucket.findById(_id), up to the return of the promise
FindByIdCall(p, id) ==
  /\ Idle(p) /\ connected
  /\ id \in 1..(nextId - 1)
  /\ op' = [op EXCEPT ![p] =
       [IdleOp EXCEPT !.kind = "findById", !.opts = [_id |-> id, filename |-> <<>>],
          !.id = id, !.limit = 0, !.calls = <<"find">>, !.pc = "finding"]]
  /\ UNCHANGED <<connected, nextId, files, chunks, docs, written>>

\* GridFSBucket.findOne({filename}, {limit}), up to the return of the promise
FindOneCall(p, name, limit) ==
  /\ Idle(p) /\ connected
  /\ op' = [op EXCEPT ![p] =
       [IdleOp EXCEPT !.kind = "findOne", !.opts = [_id |-> 0, filename |-> name],
          !.filename = name, !.limit = limit, !.calls = <<"find">>,
          !.pc = "finding"]]
  /\ UNCHANGED <<connected, nextId, files, chunks, docs, written>>

\* findOne's cursor.next(): the record, or null
FindByIdDone(p) ==
  LET o == op[p]
      cursor == Limited(Found(o), findOneLimit(o.limit))
  IN  /\ o.kind \in {"findById", "findOne"} /\ o.pc = "finding"
      /\ op' = [op EXCEPT ![p].pc = "done", ![p].cursor = cursor,
                          ![p].ret = Resolved(cursorNext(cursor))]
      /\ UNCHANGED <<connected, nextId, files, chunks, docs, written>>

\* what multer's done callback is called with: an error, or the file descriptor
DoneError == [err |-> TRUE, _id |-> 0, bucketName |-> ""]
DoneFile(id, bucketName) == [err |-> FALSE, _id |-> id, bucketName |-> bucketName]

\* the original names of incoming files, and their streams
OriginalNames == {<<"a">>, <<>>}
Streams == {src \in Sources : ~src.isBuffer}

\* GridFSBucket._handleFile(req, file, done), up to its return; doneThrows says
\* whether the done callback throws when it is called with the file
HandleFileCall(p, name, src, doneThrows) ==
  LET opts == [_id |-> nextId, filename |-> name]
      s == createWriteStream(opts, nextId)
  IN  /\ Idle(p) /\ connected
      /\ nextId <= MaxIds
      /\ nextId' = nextId + 1
      /\ op' = [op EXCEPT ![p] =
           IF ~s.ok
             THEN [IdleOp EXCEPT !.kind = "handleFile", !.opts = opts,
                     !.data = src.data, !.doneThrows = doneThrows, !.snap = files,
                     !.pc = "done", !.ret = InvalidOptions]
             ELSE [IdleOp EXCEPT !.kind = "handleFile", !.opts = opts,
                     !.id = s.id, !.filename = s.filename, !.data = src.data,
                     !.doneThrows = doneThrows, !.snap = files,
                     !.calls = <<s.call>>, !.pc = "piping"]]
      /\ UNCHANGED <<connected, files, chunks, docs, written>>

\* the callbacks of _handleFile once writeFile's promise resolved: then calls
\* done(null, file); what done throws lands in catch, which calls done(err, file)
handleFileDone(id, doneThrows) ==
  IF doneThrows THEN <<DoneFile(id, DEFAULT_BUCKET_NAME), DoneError>>
                ELSE <<DoneFile(id, DEFAULT_BUCKET_NAME)>>

\* writeFile's promise resolves for _handleFile and its callbacks run
HandleFileResolve(p) ==
  LET o == op[p] IN
  /\ o.kind = "handleFile" /\ o.pc = "finished"
  /\ op' = [op EXCEPT ![p].pc = "done", ![p].ret = Returned(<<>>),
                      ![p].done = handleFileDone(FileOf(o.id)._id, o.doneThrows)]
  /\ written' = {w \in written : w.id # o.id} \cup {[id |-> o.id, data |-> o.data]}
  /\ UNCHANGED <<connected, nextId, files, chunks, docs>>

----------------------------------------------------------------------------
(* Documents: Referencing Records (pluginGridable) and File Records             *)
(* (createFileSchema)                                                            *)

\* A document is [cfg, _id, val, ref, saved, length, chunkSize, uploadDate]: cfg is its schema's
\* configuration, val the current value of the configured filename field (or what
\* the configured filename function returns for the document), ref the value at
\* the fileId path (0: unset), length the File Record's length field.
\* cfg is [kind, fileId, fnameFn, fnamePath, paths]: fileId and fnamePath are the
\* plugin options ("" when the option is not given), fnameFn says that the
\* filename option is a function, paths are the schema's declared paths.

Paths == {"fileId", "gridFileId", "filename", "gridFilename"}

\* schema.path(path): _id is a path of every schema
HasPath(cfg, path) == path = "_id" \/ path \in cfg.paths

\* pluginGridable's `Object.assign({filename: 'filename'}, pluginOpts)` and
\* getFilename's `opts.filename || 'filename'`
FilenamePath(cfg) == IF cfg.fnamePath = "" THEN "filename" ELSE cfg.fnamePath

\* getFileIdPath(doc, opts)
getFileIdPath(cfg) ==
  LET idPath == IF cfg.fileId = "" THEN "fileId" ELSE cfg.fileId
  IN  IF HasPath(cfg, idPath) THEN idPath ELSE ""

\* getFilename falling back to the id-based name whenever the value is blank
getFilenameFallback(d) ==
  IF (d.cfg.fnameFn \/ HasPath(d.cfg, FilenamePath(d.cfg))) /\ Trim(OrEmpty(d.val)) # <<>>
    THEN Trim(OrEmpty(d.val))
    ELSE IdFileName(d._id)

\* getFilename without the id-based name
getFilenameNoFallback(d) == Trim(OrEmpty(d.val))

\* getFilename without trim()
getFilenameUntrimmed(d) ==
  IF d.cfg.fnameFn \/ HasPath(d.cfg, FilenamePath(d.cfg))
    THEN OrEmpty(d.val)
    ELSE IdFileName(d._id)

\* getFilename(doc, opts)
getFilename(d) ==
  IF d.cfg.fnameFn
    THEN Trim(OrEmpty(d.val))
  ELSE IF HasPath(d.cfg, FilenamePath(d.cfg))
    THEN Trim(OrEmpty(d.val))
  ELSE IdFileName(d._id)

\* doc.get(fileIdPath)
GetFileId(d) == IF getFileIdPath(d.cfg) = "_id" THEN d._id ELSE d.ref

\* getReadFileOpts(doc, pluginOpts) without read options
getReadFileOpts(d) ==
  IF getFileIdPath(d.cfg) # "" /\ GetFileId(d) # 0
    THEN [_id |-> GetFileId(d), filename |-> Undefined]
    ELSE [_id |-> 0, filename |-> getFilename(d)]

\* the plugin's createWriteStream never handing the document's _id to the bucket
pluginWriteOptsNoId(d) == [_id |-> 0, filename |-> getFilename(d)]

\* the write options of schema.methods.createWriteStream (plugin)
pluginWriteOpts(d) ==
  [_id |-> IF d.cfg.fileId = "_id" THEN d._id ELSE 0, filename |-> getFilename(d)]

\* the write options of schema.methods.createWriteStream (File Record)
fileWriteOpts(d) == [_id |-> d._id, filename |-> d.val]

\* the options of schema.methods.createReadStream (File Record)
fileReadStreamOpts(d) == [_id |-> d._id, filename |-> d.val]

IsFile(d) == d.cfg.kind = "file"

RecordWriteOpts(d) == IF IsFile(d) THEN fileWriteOpts(d) ELSE pluginWriteOpts(d)

NotConnected == Failure("thrown", "NotConnected", NotConnectedCode, 0)

\* createFromCollection without its connection check
createFromCollectionUnchecked(hasDb) == TRUE

\* GridFSBucket.createFromCollection: is a bucket created for this collection
createFromCollection(hasDb) == hasDb

\* a record's operation as it is called: hadDb is `coll.conn && coll.conn.db`,
\* bucket says whether createFromCollection returned a bucket
RecordOp(kind, d, opts) ==
  [IdleOp EXCEPT !.kind = kind, !.doc = d, !.opts = opts, !.hadDb = connected,
     !.bucket = createFromCollection(connected), !.snap = files]

\* an operation that ended in getBucket() throwing
Unconnected(kind, d) ==
  [RecordOp(kind, d, IdleOp.opts) EXCEPT !.pc = "done", !.ret = NotConnected]

\* writeData(writeStream, data), which the plugin's write imports from bucket.ts:
\* it takes a Buffer or a stream and fails on neither
writeDataFails(src) == FALSE

\* the plugin's write hands its data to writeData, the File Record's write pipes it
SourceFails(d, src) == IF IsFile(d) THEN PipeFails(src) ELSE writeDataFails(src)

\* schema.methods.write(data) of either schema, up to the return of the promise
RecordWriteCall(p, d, src) ==
  LET doc == docs[d]
      kind == IF IsFile(doc) THEN "fileWrite" ELSE "docWrite"
      opts == RecordWriteOpts(doc)
      s == createWriteStream(opts, nextId)
  IN  /\ Idle(p)
      /\ IF ~createFromCollection(connected)
           THEN /\ op' = [op EXCEPT ![p] =
                     [Unconnected(kind, d) EXCEPT !.data = src.data,
                                                  !.isBuffer = src.isBuffer]]
                /\ UNCHANGED nextId
         ELSE IF ~s.ok
           THEN /\ op' = [op EXCEPT ![p] =
                     [RecordOp(kind, d, opts) EXCEPT
                        !.data = src.data, !.isBuffer = src.isBuffer,
                        !.pc = "done", !.ret = InvalidOptions]]
                /\ UNCHANGED nextId
         ELSE /\ opts._id = 0 => nextId <= MaxIds
              /\ nextId' = IF opts._id = 0 THEN nextId + 1 ELSE nextId
              /\ op' = [op EXCEPT ![p] =
                   [RecordOp(kind, d, opts) EXCEPT
                      !.id = s.id, !.filename = s.filename, !.data = src.data,
                      !.isBuffer = src.isBuffer, !.calls = <<s.call>>,
                      !.pc = IF SourceFails(doc, src) THEN "done" ELSE "piping",
                      !.ret = IF SourceFails(doc, src) THEN TypeError ELSE NoRet]]
      /\ UNCHANGED <<connected, files, chunks, docs, written>>

\* the plugin's write saving the record without setting the reference
pluginAfterWriteNoRef(d, fileId) == [d EXCEPT !.saved = TRUE]

\* the plugin's write after writeData resolved with the file: set the reference
\* unless the fileId path is _id, then save
pluginAfterWrite(d, fileId) ==
  IF getFileIdPath(d.cfg) \notin {"_id", ""}
    THEN [d EXCEPT !.ref = fileId, !.saved = TRUE, !.savedRef = fileId]
    ELSE [d EXCEPT !.saved = TRUE]

\* the plugin's write when save() rejects: the reference was set on the record
\* in memory, nothing was persisted
pluginSaveFailed(d, fileId) ==
  IF getFileIdPath(d.cfg) \notin {"_id", ""} THEN [d EXCEPT !.ref = fileId] ELSE d

\* the 'finish' handler leaving the record's length as it was
fileAfterWriteNoLength(d, file) ==
  [d EXCEPT !.chunkSize = file.chunkSize, !.uploadDate = file.uploadDate,
            !.saved = TRUE]

\* the File Record's 'finish' handler: copy the file's fields, then save
fileAfterWrite(d, file) ==
  [d EXCEPT !.length = file.length, !.chunkSize = file.chunkSize,
            !.uploadDate = file.uploadDate, !.saved = TRUE]

\* the 'finish' handler when save() rejects: the fields were copied in memory
fileSaveFailed(d, file) ==
  [d EXCEPT !.length = file.length, !.chunkSize = file.chunkSize,
            !.uploadDate = file.uploadDate]

\* the error save() rejects with
SaveError == Failure("rejected", "SaveError", 0, 0)

\* a write resolving although save() rejected
afterSaveErrorResolved(o, err) == [o EXCEPT !.pc = "done", !.ret = Resolved(<<>>)]

\* the write's promise when save() rejected with err: the rejection passes
\* through the then-chain (plugin) or to .catch(reject) (File Record)
afterSaveError(o, err) == [o EXCEPT !.pc = "done", !.ret = err]

\* the record's write after the upload finished, when save() rejects
RecordWriteSaveFails(p) ==
  LET o == op[p] IN
  /\ o.kind \in {"docWrite", "fileWrite"} /\ o.pc = "finished"
  /\ docs' = [docs EXCEPT ![o.doc] =
       IF o.kind = "fileWrite" THEN fileSaveFailed(docs[o.doc], FileOf(o.id))
                               ELSE pluginSaveFailed(docs[o.doc], o.id)]
  /\ op' = [op EXCEPT ![p] = afterSaveError(o, SaveError)]
  /\ written' = {w \in written : w.id # o.id} \cup {[id |-> o.id, data |-> o.data]}
  /\ UNCHANGED <<connected, nextId, files, chunks>>

\* the record's write after the upload finished, up to the promise's resolution
RecordWriteSave(p) ==
  LET o == op[p] IN
  /\ o.kind \in {"docWrite", "fileWrite"} /\ o.pc = "finished"
  /\ docs' = [docs EXCEPT ![o.doc] =
       IF o.kind = "fileWrite" THEN fileAfterWrite(docs[o.doc], FileOf(o.id))
                               ELSE pluginAfterWrite(docs[o.doc], o.id)]
  /\ op' = [op EXCEPT ![p].pc = "done", ![p].ret = Resolved(<<>>)]
  /\ written' = {w \in written : w.id # o.id} \cup {[id |-> o.id, data |-> o.data]}
  /\ UNCHANGED <<connected, nextId, files, chunks>>

\* schema.methods.read() of either schema, up to the return of the promise
RecordReadCall(p, d) ==
  LET doc == docs[d]
      kind == IF IsFile(doc) THEN "fileRead" ELSE "docRead"
      opts == IF IsFile(doc) THEN [_id |-> doc._id, filename |-> Undefined]
                             ELSE getReadFileOpts(doc)
      s == createReadStream(opts)
  IN  /\ Idle(p)
      /\ op' = [op EXCEPT ![p] =
           IF ~createFromCollection(connected) THEN Unconnected(kind, d)
           ELSE IF s.ok
             THEN [RecordOp(kind, d, opts) EXCEPT
                     !.id = s.id, !.filename = s.filename, !.byName = (s.id = 0),
                     !.calls = <<s.call>>, !.pc = "reading"]
             ELSE [RecordOp(kind, d, opts) EXCEPT
                     !.pc = "done",
                     !.ret = [InvalidOptions EXCEPT !.status = "rejected"]]]
      /\ UNCHANGED <<connected, nextId, files, chunks, docs, written>>

\* schema.methods.createReadStream() of either schema
RecordCreateReadStream(p, d) ==
  LET doc == docs[d]
      opts == IF IsFile(doc) THEN fileReadStreamOpts(doc) ELSE getReadFileOpts(doc)
      s == createReadStream(opts)
  IN  /\ Idle(p)
      /\ op' = [op EXCEPT ![p] =
           IF ~createFromCollection(connected)
             THEN Unconnected("recordCreateReadStream", d)
           ELSE IF s.ok
             THEN [RecordOp("recordCreateReadStream", d, opts) EXCEPT
                     !.id = s.id, !.filename = s.filename,
                     !.byName = (s.id = 0), !.calls = <<s.call>>, !.pc = "done",
                     !.ret = Returned(<<>>)]
             ELSE [RecordOp("recordCreateReadStream", d, opts) EXCEPT
                     !.pc = "done", !.ret = InvalidOptions]]
      /\ UNCHANGED <<connected, nextId, files, chunks, docs, written>>

\* schema.methods.createWriteStream() of either schema
RecordCreateWriteStream(p, d) ==
  LET doc == docs[d]
      opts == RecordWriteOpts(doc)
      s == createWriteStream(opts, nextId)
  IN  /\ Idle(p)
      /\ IF ~createFromCollection(connected)
           THEN /\ op' = [op EXCEPT ![p] = Unconnected("recordCreateWriteStream", d)]
                /\ UNCHANGED nextId
         ELSE IF ~s.ok
           THEN /\ op' = [op EXCEPT ![p] =
                     [RecordOp("recordCreateWriteStream", d, opts) EXCEPT
                        !.pc = "done", !.ret = InvalidOptions]]
                /\ UNCHANGED nextId
         ELSE /\ opts._id = 0 => nextId <= MaxIds
              /\ nextId' = IF opts._id = 0 THEN nextId + 1 ELSE nextId
              /\ op' = [op EXCEPT ![p] =
                   [RecordOp("recordCreateWriteStream", d, opts) EXCEPT
                      !.id = s.id, !.filename = s.filename,
                      !.calls = <<s.call>>, !.pc = "done", !.ret = Returned(<<>>)]]
      /\ UNCHANGED <<connected, files, chunks, docs, written>>

\* schema.methods.getBucket() of either schema
RecordGetBucket(p, d) ==
  /\ Idle(p)
  /\ op' = [op EXCEPT ![p] =
       IF ~createFromCollection(connected) THEN Unconnected("getBucket", d)
       ELSE [RecordOp("getBucket", d, IdleOp.opts) EXCEPT !.pc = "done",
               !.ret = Returned(<<>>)]]
  /\ UNCHANGED <<connected, nextId, files, chunks, docs, written>>

\* the File Record's deleteById() / unlink(), up to the return of the promise
FileDeleteByIdCall(p, d) ==
  /\ Idle(p) /\ IsFile(docs[d])
  /\ op' = [op EXCEPT ![p] =
       IF ~createFromCollection(connected) THEN Unconnected("fileDeleteById", d)
       ELSE [RecordOp("fileDeleteById", d, [_id |-> docs[d]._id, filename |-> <<>>])
               EXCEPT !.id = docs[d]._id, !.calls = <<"delete">>, !.pc = "deleting"]]
  /\ UNCHANGED <<connected, nextId, files, chunks, docs, written>>

\* schema.methods.getGridFSFilename()
GetGridFSFilenameCall(p, d) ==
  /\ Idle(p) /\ ~IsFile(docs[d])
  /\ op' = [op EXCEPT ![p] =
       [IdleOp EXCEPT !.kind = "getGridFSFilename", !.doc = d, !.pc = "done",
          !.ret = Returned(getFilename(docs[d]))]]
  /\ UNCHANGED <<connected, nextId, files, chunks, docs, written>>

\* mongoose establishes the connection of the documents' model
Connect ==
  /\ ~connected
  /\ connected' = TRUE
  /\ UNCHANGED <<nextId, files, chunks, docs, op, written>>

\* the caller has seen the outcome and is ready for its next call
Return(p) ==
  /\ op[p].pc = "done"
  /\ op' = [op EXCEPT ![p] = IdleOp]
  /\ UNCHANGED <<connected, nextId, files, chunks, docs, written>>

----------------------------------------------------------------------------
(* The bucket adapter used directly: `new GridFSBucket(db)` on a live database *)

Init ==
  /\ connected = TRUE
  /\ nextId = 1
  /\ files = <<>>
  /\ chunks = {}
  /\ docs = <<>>
  /\ op = [p \in {1} |-> IdleOp]
  /\ written = {}

\* writes whose id is the default `new mongodb.ObjectId()`
FreshWriteOpts == {o \in WriteOpts : o._id = 0}

WriteFile ==
  \E p \in Callers, opts \in FreshWriteOpts, src \in Sources :
    WriteFileCall(p, opts, src)
Chunk == \E p \in Callers : UploadChunk(p)
Finish == \E p \in Callers : UploadEnd(p)
WriteFileDone == \E p \in Callers : WriteFileResolve(p)
ReadFile == \E p \in Callers, opts \in ReadOpts : ReadFileCall(p, opts)
Push == \E p \in Callers : Deliver(p)
ReadFileDone == \E p \in Callers : ReadFileResolve(p)
OpenRead == \E p \in Callers, opts \in ReadOpts : CreateReadStreamCall(p, opts)
OpenWrite == \E p \in Callers, opts \in WriteOpts : CreateWriteStreamCall(p, opts)
DeleteById == \E p \in Callers, id \in 1..MaxIds : DeleteByIdCall(p, id)
DeleteDone == \E p \in Callers : DeleteByIdDone(p)
DeleteByFilename ==
  \E p \in Callers, name \in FileNames, limit \in Limits :
    DeleteByFilenameCall(p, name, limit)
DeleteFetch == \E p \in Callers : DeleteByFilenameFetch(p)
DeleteNext == \E p \in Callers : DeleteByFilenameNext(p)
FindById == \E p \in Callers, id \in 1..MaxIds : FindByIdCall(p, id)
FindOne ==
  \E p \in Callers, name \in FileNames, limit \in Limits : FindOneCall(p, name, limit)
FindDone == \E p \in Callers : FindByIdDone(p)
HandleFile ==
  \E p \in Callers, name \in OriginalNames, src \in Streams, t \in BOOLEAN :
    HandleFileCall(p, name, src, t)
HandleFileDone == \E p \in Callers : HandleFileResolve(p)
Returns == \E p \in Callers : Return(p)

Next ==
  \/ WriteFile \/ Chunk \/ Finish \/ WriteFileDone
  \/ ReadFile \/ Push \/ ReadFileDone
  \/ OpenRead \/ OpenWrite
  \/ DeleteById \/ DeleteDone
  \/ DeleteByFilename \/ DeleteFetch \/ DeleteNext
  \/ FindById \/ FindOne \/ FindDone
  \/ HandleFile \/ HandleFileDone
  \/ Returns

Spec == Init /\ [][Next]_vars

----------------------------------------------------------------------------
(* Documents of mongoose models, connected or not yet *)

NewDoc(cfg, id, val) ==
  [cfg |-> cfg, _id |-> id, val |-> val, ref |-> 0, saved |-> FALSE,
   savedRef |-> 0, length |-> 0, chunkSize |-> 0, uploadDate |-> 0]

PluginCfg(fileId, fnameFn, fnamePath, paths) ==
  [kind |-> "plugin", fileId |-> fileId, fnameFn |-> fnameFn,
   fnamePath |-> fnamePath, paths |-> paths]

\* createFileSchema: filename is a declared (required) path
FileCfg ==
  [kind |-> "file", fileId |-> "_id", fnameFn |-> FALSE, fnamePath |-> "filename",
   paths |-> {"filename"}]

\* the schemas of the test suites, and fileId '_id' on a schema with a filename
ModelCfgs ==
  { PluginCfg("", FALSE, "", {"fileId", "filename"}),
    PluginCfg("gridFileId", FALSE, "", {"gridFileId"}),
    PluginCfg("_id", FALSE, "", {}),
    PluginCfg("_id", FALSE, "", {"filename"}),
    PluginCfg("", TRUE, "", {}),
    PluginCfg("", FALSE, "gridFilename", {"gridFilename"}),
    FileCfg }

\* does the document hold a value the filename resolution reads
ReadsVal(cfg) == cfg.fnameFn \/ HasPath(cfg, FilenamePath(cfg))

FieldValues == {Undefined, <<" ">>, <<"a">>}

RecordDocs ==
  {NewDoc(cfg, 1, val) : cfg \in ModelCfgs, val \in FieldValues}

InitRecords ==
  /\ connected = FALSE
  /\ nextId = 2
  /\ files = <<>>
  /\ chunks = {}
  /\ \E d \in RecordDocs : (ReadsVal(d.cfg) \/ d.val = Undefined) /\ docs = <<d>>
  /\ op = [p \in {1} |-> IdleOp]
  /\ written = {}

DocIds == 1..Len(docs)

RecordWrite ==
  \E p \in Callers, d \in DocIds, src \in Sources : RecordWriteCall(p, d, src)
RecordSave == \E p \in Callers : RecordWriteSave(p)
RecordSaveFails == \E p \in Callers : RecordWriteSaveFails(p)
RecordRead == \E p \in Callers, d \in DocIds : RecordReadCall(p, d)
RecordOpenRead == \E p \in Callers, d \in DocIds : RecordCreateReadStream(p, d)
RecordOpenWrite == \E p \in Callers, d \in DocIds : RecordCreateWriteStream(p, d)
RecordBucket == \E p \in Callers, d \in DocIds : RecordGetBucket(p, d)
FileDeleteById == \E p \in Callers, d \in DocIds : FileDeleteByIdCall(p, d)
GetGridFSFilename == \E p \in Callers, d \in DocIds : GetGridFSFilenameCall(p, d)

\* the bucket adapter used beside the documents, for the filename "a" or none
SharedWriteOpts == {o \in FreshWriteOpts : o.filename # <<"b">>}
BucketWrite ==
  \E p \in Callers, opts \in SharedWriteOpts, src \in Sources :
    WriteFileCall(p, opts, src)
BucketOpenWrite ==
  \E p \in Callers, opts \in SharedWriteOpts : CreateWriteStreamCall(p, opts)

NextRecords ==
  \/ Connect
  \/ RecordWrite \/ Chunk \/ Finish \/ RecordSave
  \/ RecordRead \/ Push \/ ReadFileDone
  \/ RecordOpenRead \/ RecordOpenWrite \/ RecordBucket
  \/ FileDeleteById \/ DeleteDone
  \/ GetGridFSFilename
  \/ BucketWrite \/ WriteFileDone \/ BucketOpenWrite
  \/ Returns

SpecRecords == InitRecords /\ [][NextRecords]_vars

----------------------------------------------------------------------------
(* Filename resolution on its own: every plugin configuration and field value *)

AllCfgs ==
  {PluginCfg(fileId, fnameFn, fnamePath, paths) :
     fileId \in {"", "_id", "fileId", "gridFileId"}, fnameFn \in BOOLEAN,
     fnamePath \in {"", "filename", "gridFilename"}, paths \in SUBSET Paths}

InitNames ==
  /\ connected = FALSE
  /\ nextId = 2
  /\ files = <<>>
  /\ chunks = {}
  /\ \E cfg \in AllCfgs, val \in Strings \cup {Undefined} :
       /\ ReadsVal(cfg) \/ val = Undefined
       /\ docs = <<NewDoc(cfg, 1, val)>>
  /\ op = [p \in {1} |-> IdleOp]
  /\ written = {}

NextNames == GetGridFSFilename \/ Returns

SpecNames == InitNames /\ [][NextNames]_vars

----------------------------------------------------------------------------
(* Round trips *)

\* C1 (as claimed): readFile by the id of a file that a resolved write stored
\* (non-empty content, the record still in the bucket) resolves with exactly the
\* written content, never null or a part of it.
C1_ReadByIdReturnsWritten ==
  \A p \in Callers :
    LET o == op[p] IN
    (o.kind = "readFile" /\ Settled(o) /\ o.opts._id \in FileIds
       /\ \E w \in written : w.id = o.opts._id /\ w.data # <<>>)
    => /\ o.ret.status = "resolved"
       /\ \E w \in written : w.id = o.opts._id /\ o.ret.val = w.data

\* C2 (as claimed): writeFile with a Buffer as its data and a filename resolves
\* and stores exactly the buffer's content.
C2_BufferWriteResolves ==
  \A p \in Callers :
    LET o == op[p] IN
    (o.kind = "writeFile" /\ Settled(o) /\ o.isBuffer /\ OrEmpty(o.opts.filename) # <<>>)
    => /\ o.ret.status = "resolved"
       /\ o.id \in FileIds
       /\ ContentOf(FileOf(o.id)) = o.data

----------------------------------------------------------------------------
(* Deleting *)

\* C3: when deleteById(id) resolves it resolves with the id it was given, the
\* record with that id is gone, the other records are as they were; a record
\* comes (back) into the bucket only through the completion of an upload under its
\* id; findById of an id resolves null exactly when no record has that id, and a
\* read by an id that no record has returns no content.
C3_DeleteById ==
  [][ /\ \A p \in Callers :
           (op[p].kind = "deleteById" /\ op[p].pc = "deleting"
              /\ op'[p].pc = "done" /\ op'[p].ret.status = "resolved")
           => /\ op'[p].ret.val = op[p].opts._id
              /\ op[p].opts._id \in FileIds
              /\ \A i \in 1..Len(files') : files'[i]._id # op[p].opts._id
              /\ files' = SelectSeq(files, LAMBDA f : f._id # op[p].opts._id)
              /\ chunks' = {c \in chunks : c.files_id # op[p].opts._id}
      /\ \A id \in 1..MaxIds :
           (id \notin FileIds /\ id \in FileIds')
           => \E p \in Callers : op[p].pc = "piping" /\ op[p].id = id
      /\ \A p \in Callers :
           (op'[p].kind = "findById" /\ Settled(op'[p]))
           => (op'[p].ret.val = NullFile <=> op'[p].opts._id \notin FileIds')
      /\ \A p \in Callers :
           (op'[p].kind = "readFile" /\ Settled(op'[p])
              /\ op'[p].opts._id # 0 /\ op'[p].opts._id \notin FileIds')
           => op'[p].ret.val = Null
    ]_vars

\* C3 witness: a deleteById has resolved and another record is still stored
C3_Witness ==
  \E p \in Callers :
    /\ op[p].kind = "deleteById" /\ Settled(op[p]) /\ op[p].ret.status = "resolved"
    /\ Len(op[p].snap) = 2 /\ Len(files) = 1

\* the ids the find of a deleteByFilename call matched, all of them
Matched(o) == IdsByName(o.snap, o.filename)

\* C4 (as claimed): a resolved deleteByFilename deleted every record with that
\* filename and reports exactly their ids, whatever the find options.
C4_DeletesAllMatching ==
  \A p \in Callers :
    LET o == op[p] IN
    (o.kind = "deleteByFilename" /\ Settled(o) /\ o.ret.status = "resolved")
    => /\ o.ret.val = Matched(o)
       /\ IdsByName(files, o.filename) = <<>>

\* C4 (amended): a resolved deleteByFilename deleted exactly the records its find
\* yielded under the options (all N without a limit, the first min(limit, N) with
\* one), reports exactly their ids, each once, and left every other record.
C4_DeletesFoundRecords ==
  \A p \in Callers :
    LET o == op[p]
        k == IF o.limit = 0 THEN Len(Matched(o)) ELSE Min(o.limit, Len(Matched(o)))
    IN  (o.kind = "deleteByFilename" /\ Settled(o) /\ o.ret.status = "resolved")
        => /\ Len(o.ret.val) = k
           /\ \A i \in 1..k : o.ret.val[i] = Matched(o)[i]
           /\ \A i, j \in 1..k : o.ret.val[i] = o.ret.val[j] => i = j
           /\ \A i \in 1..k : o.ret.val[i] \notin FileIds
           /\ files = SelectSeq(o.snap, LAMBDA f : \A i \in 1..k : f._id # Matched(o)[i])

\* C4 witness: two records had the filename, the limit was 1, one was deleted
C4_Witness ==
  \E p \in Callers :
    /\ op[p].kind = "deleteByFilename" /\ Settled(op[p])
    /\ op[p].limit = 1 /\ Len(Matched(op[p])) = 2 /\ Len(op[p].ret.val) = 1
    /\ Len(files) = 2

----------------------------------------------------------------------------
(* Records writing under their own _id *)

\* a settled write of a plugin record configured with fileId '_id', called on a
\* connected model
OwnIdWrite(o) ==
  /\ o.kind = "docWrite" /\ Settled(o) /\ o.hadDb
  /\ docs[o.doc].cfg.fileId = "_id"

\* the file with the record's own _id existed when the write was called
HadOwnFile(o) == \E i \in 1..Len(o.snap) : o.snap[i]._id = docs[o.doc]._id

\* what C5 says of such a write: the first succeeds and stores the file under the
\* record's _id, a later one is rejected with the duplicate-key error naming
\* that _id and leaves the stored file as the first wrote it
OwnIdWriteOutcome(o) ==
  LET id == docs[o.doc]._id IN
  IF HadOwnFile(o)
    THEN /\ o.ret.status = "rejected"
         /\ o.ret.code = DuplicateKeyCode /\ o.ret.key = id
         /\ files = o.snap
         /\ \E w \in written : w.id = id /\ ContentOf(FileOf(id)) = w.data
    ELSE /\ o.ret.status = "resolved"
         /\ o.id = id /\ id \in FileIds
         /\ ContentOf(FileOf(id)) = o.data

\* C5 (as claimed): on every plugin record with fileId '_id' the first write
\* succeeds under the record's _id and every later write is rejected with the
\* duplicate-key error (code 11000) naming that _id, the first file unchanged.
C5_OwnIdWrites ==
  \A p \in Callers : OwnIdWrite(op[p]) => OwnIdWriteOutcome(op[p])

\* C5 (amended): the same, for records whose resolved filename is not empty.
C5_OwnIdWritesNamed ==
  \A p \in Callers :
    (OwnIdWrite(op[p]) /\ OrEmpty(op[p].opts.filename) # <<>>)
    => OwnIdWriteOutcome(op[p])

\* C5 witness: a second write was rejected with the duplicate key
C5_Witness ==
  \E p \in Callers :
    /\ OwnIdWrite(op[p]) /\ HadOwnFile(op[p])
    /\ op[p].ret.code = DuplicateKeyCode
    /\ op[p].data # <<>>

----------------------------------------------------------------------------
(* Filename resolution *)

Blank(s) == \A i \in 1..Len(s) : s[i] = " "

\* t is s without its leading and trailing blanks
IsTrimOf(t, s) ==
  \E i \in 1..(Len(s) + 1), j \in 0..Len(s) :
    /\ t = SubSeq(s, i, j)
    /\ Blank(SubSeq(s, 1, i - 1)) /\ Blank(SubSeq(s, j + 1, Len(s)))
    /\ t # <<>> => (t[1] # " " /\ t[Len(t)] # " ")

\* a settled getGridFSFilename call
NameCall(o) == o.kind = "getGridFSFilename" /\ Settled(o)

\* C6 (as claimed): when the filename function or the declared filename field
\* yields no content (blank or unset), getGridFSFilename returns "<id>.file".
C6_BlankFallsBack ==
  \A p \in Callers :
    LET o == op[p]
        d == docs[o.doc]
    IN  (NameCall(o) /\ ReadsVal(d.cfg) /\ Blank(OrEmpty(d.val)))
        => o.ret.val = IdFileName(d._id)

\* C6 (amended): getGridFSFilename returns "<id>.file" exactly when the filename
\* option is not a function and the filename path is not a path of the schema; a
\* function or a declared field that yields no content gives '' instead.
C6_FallbackOnlyUndeclared ==
  \A p \in Callers :
    LET o == op[p]
        d == docs[o.doc]
    IN  NameCall(o)
        => /\ (o.ret.val = IdFileName(d._id)) <=> ~ReadsVal(d.cfg)
           /\ (ReadsVal(d.cfg) /\ Blank(OrEmpty(d.val))) => o.ret.val = <<>>

\* C6 witness: a declared filename field holding blanks resolved to ''
C6_Witness ==
  \E p \in Callers :
    /\ NameCall(op[p]) /\ ~docs[op[p].doc].cfg.fnameFn
    /\ docs[op[p].doc].val = <<" ">> /\ op[p].ret.val = <<>>

\* C7: the filename of a Referencing Record is the trimmed return value of the
\* filename function; else, if the filename path is declared, the trimmed value
\* of that field, '' when it is unset; else "<id>.file".
C7_FilenameResolution ==
  \A p \in Callers :
    LET o == op[p]
        d == docs[o.doc]
    IN  NameCall(o)
        => IF d.cfg.fnameFn
             THEN IsTrimOf(o.ret.val, OrEmpty(d.val))
           ELSE IF FilenamePath(d.cfg) \in d.cfg.paths
             THEN /\ IsTrimOf(o.ret.val, OrEmpty(d.val))
                  /\ d.val = Undefined => o.ret.val = <<>>
           ELSE o.ret.val = <<ToString(d._id), ".file">>

\* C7 witness: a field value with blanks around it was resolved to its content
C7_Witness ==
  \E p \in Callers :
    /\ NameCall(op[p]) /\ ~docs[op[p].doc].cfg.fnameFn
    /\ Len(docs[op[p].doc].val) = 2 /\ op[p].ret.val = <<"a">>

----------------------------------------------------------------------------
(* Failing before the storage driver is reached *)

RecordKinds ==
  {"getBucket", "recordCreateReadStream", "recordCreateWriteStream", "docRead",
   "fileRead", "docWrite", "fileWrite", "fileDeleteById"}

\* C8: a record operation that derives its bucket from a collection without a
\* database handle fails with NotConnected (code 500); no bucket is created and
\* no call reaches the storage driver.
C8_NotConnected ==
  \A p \in Callers :
    LET o == op[p] IN
    (o.kind \in RecordKinds /\ ~o.hadDb)
    => /\ Settled(o)
       /\ o.ret.name = "NotConnected" /\ o.ret.code = 500
       /\ o.ret.status \notin {"resolved", "returned"}
       /\ ~o.bucket
       /\ o.calls = <<>>
       /\ files = <<>> /\ chunks = {}

\* C8 witness: a record's write was called before the connection
C8_Witness ==
  \E p \in Callers :
    /\ op[p].kind = "docWrite" /\ ~op[p].hadDb
    /\ op[p].ret.name = "NotConnected"

WriteKinds ==
  {"writeFile", "createWriteStream", "recordCreateWriteStream", "docWrite",
   "fileWrite"}

\* C9: a write called (on a connected model) with an absent or empty filename
\* fails at once with InvalidOptions (code 400): no upload stream is opened, no
\* file record or chunk is stored, no record is changed or saved.
C9_EmptyFilename ==
  [][ \A p \in Callers :
        ( /\ op[p].pc = "idle" /\ op'[p].kind \in WriteKinds
          /\ op'[p].hadDb
          /\ op'[p].opts.filename \in {<<>>, Undefined} )
        => /\ op'[p].pc = "done"
           /\ op'[p].ret.name = "InvalidOptions" /\ op'[p].ret.code = 400
           /\ op'[p].ret.status \notin {"resolved", "returned"}
           /\ op'[p].calls = <<>>
           /\ UNCHANGED <<files, chunks, docs>>
    ]_vars

\* C9 witness: a record's write failed for its empty filename, nothing saved
C9_Witness ==
  \E p \in Callers :
    /\ op[p].kind = "docWrite" /\ op[p].ret.name = "InvalidOptions"
    /\ ~docs[op[p].doc].saved /\ docs[op[p].doc].ref = 0
    /\ files = <<>>

ReadStreamKinds == {"createReadStream", "readFile"}

\* C10: createReadStream(opts) opens a download by identifier when opts has an
\* _id (whether or not it has a filename too), else a download by name when it
\* has a non-empty filename, else fails with InvalidOptions (code 400) and opens
\* no stream.
C10_ReadSelection ==
  \A p \in Callers :
    LET o == op[p] IN
    (o.kind \in ReadStreamKinds /\ o.pc # "idle")
    => IF o.opts._id # 0
         THEN o.calls = <<"openDownloadStream">> /\ o.id = o.opts._id /\ ~o.byName
       ELSE IF o.opts.filename \notin {<<>>, Undefined}
         THEN /\ o.calls = <<"openDownloadStreamByName">>
              /\ o.byName /\ o.filename = o.opts.filename
       ELSE /\ Settled(o) /\ o.calls = <<>>
            /\ o.ret.name = "InvalidOptions" /\ o.ret.code = 400

\* C10 witness: both an _id and a filename were given, the download is by id
C10_Witness ==
  \E p \in Callers :
    /\ op[p].kind = "createReadStream" /\ Settled(op[p])
    /\ op[p].opts._id # 0 /\ op[p].opts.filename = <<"a">>
    /\ op[p].calls = <<"openDownloadStream">>

----------------------------------------------------------------------------
(* Creating buckets *)

\* an option key that the caller's object does not have, and one it has with
\* the value undefined
Absent == "(absent)"
NoValue == "(undefined)"

PRIMARY_PREFERRED == "primaryPreferred"

ReadPreferences == {"primary", PRIMARY_PREFERRED, "secondary"}

\* the options a caller passes to create / createFromCollection
BucketOpts ==
  [bucketName : {Absent, "", "images"},
   readPreference : ReadPreferences \cup {Absent, NoValue},
   bucketNameFromCollection : BOOLEAN]

CollectionNames == {"docs", "attachments.files"}

\* constructor(db, options): the bucket the driver is given
NewBucket(options) ==
  [bucketName |-> IF options.bucketName \in {Absent, NoValue, ""}
                    THEN DEFAULT_BUCKET_NAME ELSE options.bucketName,
   readPreference |-> options.readPreference]

\* GridFSBucket.create(db, opts)
create(opts) == NewBucket([bucketName |-> opts.bucketName,
                           readPreference |-> opts.readPreference])

\* the options createFromCollection hands to the constructor
fromCollectionOpts(collectionName, opts) ==
  [bucketName |-> IF opts.bucketNameFromCollection THEN collectionName
                                                   ELSE opts.bucketName,
   readPreference |-> IF opts.readPreference = Absent THEN PRIMARY_PREFERRED
                                                      ELSE opts.readPreference]

\* GridFSBucket.create(db, opts) called with the handle of a database
CreateCall(p, opts) ==
  /\ Idle(p) /\ connected
  /\ op' = [op EXCEPT ![p] =
       [IdleOp EXCEPT !.kind = "create", !.opts = opts, !.bucket = TRUE,
          !.pc = "done", !.ret = Returned(create(opts))]]
  /\ UNCHANGED <<connected, nextId, files, chunks, docs, written>>

\* GridFSBucket.createFromCollection(coll, opts)
CreateFromCollectionCall(p, name, opts) ==
  /\ Idle(p)
  /\ op' = [op EXCEPT ![p] =
       IF ~createFromCollection(connected)
         THEN [IdleOp EXCEPT !.kind = "createFromCollection", !.opts = opts,
                 !.filename = name, !.hadDb = connected, !.pc = "done",
                 !.ret = NotConnected]
         ELSE [IdleOp EXCEPT !.kind = "createFromCollection", !.opts = opts,
                 !.filename = name, !.hadDb = connected, !.bucket = TRUE,
                 !.pc = "done",
                 !.ret = Returned(NewBucket(fromCollectionOpts(name, opts)))]]
  /\ UNCHANGED <<connected, nextId, files, chunks, docs, written>>

InitBuckets ==
  /\ connected = FALSE
  /\ nextId = 1
  /\ files = <<>>
  /\ chunks = {}
  /\ docs = <<>>
  /\ op = [p \in {1} |-> IdleOp]
  /\ written = {}

Create == \E p \in Callers, opts \in BucketOpts : CreateCall(p, opts)
CreateFromCollection ==
  \E p \in Callers, name \in CollectionNames, opts \in BucketOpts :
    CreateFromCollectionCall(p, name, opts)

NextBuckets == Connect \/ Create \/ CreateFromCollection \/ Returns

SpecBuckets == InitBuckets /\ [][NextBuckets]_vars

\* C11 (as claimed): a bucket obtained through create or createFromCollection
\* has read preference 'primary preferred' when the options have none, and the
\* caller's read preference when they have one.
C11_ReadPreference ==
  \A p \in Callers :
    LET o == op[p] IN
    (o.kind \in {"create", "createFromCollection"} /\ o.ret.status = "returned")
    => o.ret.val.readPreference =
         IF o.opts.readPreference = Absent THEN PRIMARY_PREFERRED
                                           ELSE o.opts.readPreference

----------------------------------------------------------------------------
(* Single-record lookups *)

\* C12: findById and findOne resolve with one record that matches the query
\* when one exists and with null when none does; the query is run with limit 1
\* whatever limit the caller gave, so at most one record is fetched.
C12_FindOne ==
  \A p \in Callers :
    LET o == op[p] IN
    (o.kind \in {"findById", "findOne"} /\ Settled(o))
    => /\ o.ret.status = "resolved"
       /\ Len(o.cursor) <= 1
       /\ IF Found(o) = <<>>
            THEN o.ret.val = NullFile
            ELSE /\ o.ret.val \in Range(files)
                 /\ o.kind = "findById" => o.ret.val._id = o.opts._id
                 /\ o.kind = "findOne" => o.ret.val.filename = o.opts.filename

\* C12 witness: two records match, the caller asked for up to two, one came back
C12_Witness ==
  \E p \in Callers :
    /\ op[p].kind = "findOne" /\ Settled(op[p]) /\ op[p].limit = 2
    /\ Len(Found(op[p])) = 2 /\ op[p].ret.val \in Range(files)

----------------------------------------------------------------------------
(* The File Record's write *)

\* C13: a File Record is changed and saved only by its own write, after the
\* upload under its _id finished with all of the data stored; when the promise
\* resolves the record is saved, its length is the number of blocks written, its
\* chunkSize is positive, its uploadDate is that of the stored file, and the
\* stored file has the record's _id.
C13_FileRecordWrite ==
  [][ /\ \A d \in DocIds :
           (IsFile(docs[d]) /\ docs'[d] # docs[d])
           => \E p \in Callers :
                /\ op[p].kind = "fileWrite" /\ op[p].doc = d
                /\ op[p].pc = "finished"
                /\ op[p].id \in FileIds
                /\ ContentOf(FileOf(op[p].id)) = op[p].data
      /\ \A p \in Callers :
           (op'[p].kind = "fileWrite" /\ op[p].pc # "done" /\ op'[p].pc = "done"
              /\ op'[p].ret.status = "resolved")
           => LET d == docs'[op'[p].doc] IN
              /\ d.saved
              /\ d._id \in FileIds'
              /\ \E i \in 1..Len(files') :
                   /\ files'[i]._id = d._id
                   /\ d.length = files'[i].length
                   /\ d.uploadDate = files'[i].uploadDate
                   /\ d.chunkSize = files'[i].chunkSize
              /\ d.length = Len(op[p].data)
              /\ d.chunkSize > 0
    ]_vars

\* C13 witness: a File Record's write of two blocks has resolved
C13_Witness ==
  \E p \in Callers :
    /\ op[p].kind = "fileWrite" /\ Settled(op[p]) /\ op[p].ret.status = "resolved"
    /\ Len(op[p].data) = 2 /\ docs[op[p].doc].length = 2

----------------------------------------------------------------------------
(* The Referencing Record's write and read *)

\* the record is a Referencing Record whose fileId path is a declared path of
\* its schema other than _id
HasRefPath(d) == ~IsFile(d) /\ getFileIdPath(d.cfg) \notin {"_id", ""}

\* C14: the reference field of a Referencing Record (fileId path other than
\* '_id') is set only by its write, after the upload finished with all of the
\* data stored; when the promise resolves the field holds the id of the file
\* this write stored, the file is in the bucket under the record's resolved
\* filename, and the record has been saved with that reference.
C14_ReferenceAfterStore ==
  [][ /\ \A d \in DocIds :
           (HasRefPath(docs[d]) /\ docs'[d].ref # docs[d].ref)
           => \E p \in Callers :
                /\ op[p].kind = "docWrite" /\ op[p].doc = d
                /\ op[p].pc = "finished"
                /\ op[p].id \in FileIds
                /\ ContentOf(FileOf(op[p].id)) = op[p].data
                /\ docs'[d].ref = op[p].id
      /\ \A p \in Callers :
           (op'[p].kind = "docWrite" /\ op[p].pc # "done" /\ op'[p].pc = "done"
              /\ op'[p].ret.status = "resolved" /\ HasRefPath(docs[op[p].doc]))
           => LET d == docs'[op[p].doc] IN
              /\ d.ref = op[p].id /\ d.saved
              /\ \A i \in 1..Len(op[p].snap) : op[p].snap[i]._id # d.ref
              /\ \E i \in 1..Len(files') :
                   /\ files'[i]._id = d.ref
                   /\ files'[i].filename = getFilename(d)
                   /\ files'[i].length = Len(op[p].data)
    ]_vars

\* C14 witness: a second write of the record resolved and replaced the reference
C14_Witness ==
  \E p \in Callers :
    /\ op[p].kind = "docWrite" /\ Settled(op[p]) /\ op[p].ret.status = "resolved"
    /\ HasRefPath(docs[op[p].doc])
    /\ docs[op[p].doc].ref = op[p].id
    /\ \E i \in 1..Len(op[p].snap) : op[p].snap[i].filename = op[p].filename

\* C15 (as claimed): read() of a Referencing Record whose reference field is
\* populated by its latest successful write (non-empty content) downloads by
\* that id and resolves with the content of that write.
C15_ReadsLatestWrite ==
  \A p \in Callers :
    LET o == op[p]
        d == docs[o.doc]
    IN  (o.kind = "docRead" /\ Settled(o) /\ o.hadDb /\ HasRefPath(d)
           /\ \E w \in written : w.id = d.ref /\ w.data # <<>>)
        => /\ o.calls = <<"openDownloadStream">> /\ o.id = d.ref
           /\ o.ret.status = "resolved"
           /\ \E w \in written : w.id = d.ref /\ o.ret.val = w.data

\* a write of a Referencing Record on a connected model ends in failure
FailedWriteStep(p) ==
  /\ op'[p].kind = "docWrite" /\ op'[p].hadDb
  /\ op[p].pc # "done" /\ op'[p].pc = "done"
  /\ op'[p].ret.status # "resolved"

\* C16 (as claimed): when the storage write of a Referencing Record's write
\* fails (duplicate key, InvalidOptions) the promise rejects, the record is left
\* as it was, not saved, and the upload is not tried again.
C16_FailedWriteRejects ==
  [][ \A p \in Callers :
        FailedWriteStep(p)
        => /\ op'[p].ret.status = "rejected"
           /\ UNCHANGED docs
           /\ Len(op'[p].calls) <= 1
    ]_vars

----------------------------------------------------------------------------
(* Settling of the promises *)

\* C17 (as claimed): the promise of writeFile resolves only after the upload
\* finished, with the stored file record; the promise of readFile resolves only
\* after the download was drained, and when the driver's stream fails (no file
\* for the id or the name) it rejects with that error and does not resolve.
C17_SettlesOnCompletion ==
  \A p \in Callers :
    LET o == op[p] IN
    /\ (o.kind = "writeFile" /\ Settled(o) /\ o.ret.status = "resolved")
       => (o.id \in FileIds /\ o.ret.val = FileOf(o.id)
             /\ ContentOf(FileOf(o.id)) = o.data)
    /\ (o.kind = "readFile" /\ Settled(o) /\ o.calls # <<>>)
       => IF Target(o) \in FileIds
            THEN o.ret.status = "resolved" => o.n = FileOf(Target(o)).length
            ELSE o.ret.status = "rejected" /\ o.ret.name = "FileNotFound"

AsyncKinds ==
  {"writeFile", "readFile", "deleteById", "deleteByFilename", "findById",
   "findOne", "docRead", "fileRead", "docWrite", "fileWrite", "fileDeleteById"}

\* C18 (as claimed): every asynchronous operation returns a promise for every
\* input and reports each failure by rejecting it, never by throwing to its
\* caller.
C18_FailuresReject ==
  \A p \in Callers :
    (op[p].kind \in AsyncKinds /\ Settled(op[p]))
    => op[p].ret.status \in {"resolved", "rejected"}

----------------------------------------------------------------------------
(* The upload middleware *)

\* C19 (as claimed): every call of _handleFile invokes done exactly once, with
\* the descriptor of the file now stored in this bucket or with an error, also
\* for an empty original name and for a done callback that throws.
C19_DoneOnce ==
  \A p \in Callers :
    LET o == op[p] IN
    (o.kind = "handleFile" /\ Settled(o))
    => /\ Len(o.done) = 1
       /\ \/ o.done[1].err
          \/ /\ o.done[1]._id = o.id /\ o.id \in FileIds
             /\ o.done[1].bucketName = DEFAULT_BUCKET_NAME

----------------------------------------------------------------------------
(* Writing without a filename *)

\* a Referencing Record opened an upload, or tried to, on a connected model
NamedWrite(o) ==
  /\ o.kind \in {"docWrite", "recordCreateWriteStream"} /\ o.pc # "idle"
  /\ o.hadDb /\ ~IsFile(docs[o.doc])

\* the upload was opened under the name derived from the record's _id, which no
\* record with another _id derives
UsesIdName(o) ==
  /\ o.ret.name # "InvalidOptions"
  /\ o.calls = <<"openUploadStreamWithId">>
  /\ o.filename = IdFileName(docs[o.doc]._id) /\ o.filename # <<>>
  /\ \A i \in 0..(MaxIds + 1) : i # docs[o.doc]._id => IdFileName(i) # o.filename

\* C20 (as claimed): with fileId '_id' a write never fails for lack of a
\* filename: whatever the filename field or function yields, the upload is
\* opened under a non-empty name derived from the record's _id, distinct for
\* distinct records.
C20_OwnIdNeverNameless ==
  \A p \in Callers :
    (NamedWrite(op[p]) /\ docs[op[p].doc].cfg.fileId = "_id") => UsesIdName(op[p])

\* C20 (amended): the id-derived name is used, and the write cannot fail for
\* lack of a filename, exactly when the filename option is not a function and
\* the filename path is not a path of the schema, whatever the fileId option;
\* otherwise the name is the trimmed value, and a blank or unset value fails
\* the write with InvalidOptions, also with fileId '_id'.
C20_UndeclaredNameNeverNameless ==
  \A p \in Callers :
    LET o == op[p]
        d == docs[o.doc]
    IN  NamedWrite(o)
        => IF ~ReadsVal(d.cfg) THEN UsesIdName(o)
           ELSE IF Blank(OrEmpty(d.val))
             THEN /\ o.ret.name = "InvalidOptions" /\ o.ret.code = 400
                  /\ o.calls = <<>>
           ELSE /\ o.ret.name # "InvalidOptions"
                /\ IsTrimOf(o.filename, d.val)

\* C20 witness: a record with fileId '_id' and no filename path opened its
\* upload under the id-derived name
C20_Witness ==
  \E p \in Callers :
    /\ op[p].kind = "docWrite" /\ op[p].hadDb
    /\ docs[op[p].doc].cfg.fileId = "_id"
    /\ op[p].calls = <<"openUploadStreamWithId">>
    /\ op[p].id = docs[op[p].doc]._id
    /\ op[p].filename = <<ToString(op[p].id), ".file">>

----------------------------------------------------------------------------
(* Two callers writing at the same time *)

\* the identifier both callers may pass explicitly
SharedId == 1

\* a write under the shared identifier, and one that leaves the identifier out
PairWriteOpts ==
  {[_id |-> SharedId, filename |-> <<"a">>], [_id |-> 0, filename |-> <<"a">>]}

\* the two callers start writes while the bucket holds at most this many files
PairFiles == 1

InitPair ==
  /\ connected = TRUE
  /\ nextId = SharedId + 1
  /\ files = <<>>
  /\ chunks = {}
  /\ docs = <<>>
  /\ op = [p \in {1, 2} |-> IdleOp]
  /\ written = {}

PairWrite ==
  /\ Len(files) <= PairFiles
  /\ \E p \in Callers, opts \in PairWriteOpts, src \in Streams :
       WriteFileCall(p, opts, src)

NextPair == PairWrite \/ Chunk \/ Finish \/ WriteFileDone \/ Returns

SpecPair == InitPair /\ [][NextPair]_vars

\* both callers have the outcome of a writeFile with these options in hand
BothSettled(p, q, explicit) ==
  /\ p # q
  /\ op[p].kind = "writeFile" /\ Settled(op[p])
  /\ op[q].kind = "writeFile" /\ Settled(op[q])
  /\ op[p].opts.filename = op[q].opts.filename
  /\ (op[p].opts._id # 0) = explicit /\ op[p].opts._id = op[q].opts._id

\* C21: of two writes under the same explicit identifier, interleaved in any
\* order, at most one resolves and the other is rejected with the duplicate-key
\* error; the bucket never holds two records with one id, and the content of a
\* record is that of one writer; two writes to the same filename without an
\* identifier both resolve, with two records of distinct ids.
C21_ConcurrentWriters ==
  /\ \A i, j \in 1..Len(files) : files[i]._id = files[j]._id => i = j
  /\ \A i \in 1..Len(files) :
       \/ \E w \in written :
            w.id = files[i]._id /\ ContentOf(files[i]) = w.data
       \/ \E p \in Callers :
            /\ op[p].pc = "finished" /\ op[p].id = files[i]._id
            /\ ContentOf(files[i]) = op[p].data
  /\ \A p, q \in Callers :
       BothSettled(p, q, TRUE)
       => /\ ~(op[p].ret.status = "resolved" /\ op[q].ret.status = "resolved")
          /\ op[p].id = op[p].opts._id
          /\ op[p].ret.status # "resolved"
             => /\ op[p].ret.status = "rejected"
                /\ op[p].ret.code = DuplicateKeyCode /\ op[p].ret.key = op[p].id
          /\ \E i \in 1..Len(files) : files[i]._id = op[p].opts._id
  /\ \A p, q \in Callers :
       BothSettled(p, q, FALSE)
       => /\ op[p].ret.status = "resolved" /\ op[q].ret.status = "resolved"
          /\ op[p].id # op[q].id
          /\ {op[p].id, op[q].id} \subseteq FileIds
          /\ FileOf(op[p].id).filename = op[p].opts.filename

\* C21 witness: a writer stored a chunk under the shared identifier, the other
\* writer's record came in between, and the first was rejected for it
C21_Witness ==
  \E p, q \in Callers :
    /\ BothSettled(p, q, TRUE)
    /\ op[p].ret.status = "resolved" /\ op[p].data = <<>>
    /\ op[q].ret.code = DuplicateKeyCode /\ op[q].n = Len(op[q].data)
    /\ Len(op[q].data) > 0

----------------------------------------------------------------------------
(* The bucket of a record: pluginGridable's bucketOpts and bucketName *)

\* the values of the path `type` a bucketName function reads off the record
TypeValues == {NoValue, "", "image"}

\* pluginOpts: bucketOpts, and bucketName as a string, a function or left out
NamedCfgs ==
  [kind : {"named"},
   bucketOpts : [bucketName : {Absent, "", "saveable"},
                 readPreference : {Absent, "secondary"},
                 bucketNameFromCollection : {FALSE}],
   bucketName : [isFn : {FALSE}, str : {Absent, "", "thumbs"}]
                  \cup {[isFn |-> TRUE, str |-> Absent]}]

\* getBucket() with the bucket name taken from bucketOpts alone
getBucketOptsStatic(pluginOpts, d) == pluginOpts.bucketOpts

\* getBucket(): the options handed to createFromCollection
getBucketOpts(pluginOpts, d) ==
  IF pluginOpts.bucketName.isFn
    THEN [pluginOpts.bucketOpts EXCEPT !.bucketName = d.val]
  ELSE IF pluginOpts.bucketName.str \notin {Absent, ""}
    THEN [pluginOpts.bucketOpts EXCEPT !.bucketName = pluginOpts.bucketName.str]
  ELSE pluginOpts.bucketOpts

\* pluginOpts after a getBucket(): opts is a copy made by Object.assign({}, ...),
\* so the name is written to the copy
pluginOptsAfter(pluginOpts, opts) == pluginOpts

\* getBucket() of a record of a model with these plugin options
NamedGetBucketCall(p, d) ==
  LET doc == docs[d]
      opts == getBucketOpts(doc.cfg, doc)
      call == [RecordOp("getBucket", d, IdleOp.opts) EXCEPT !.snap = <<doc.val>>]
  IN /\ Idle(p)
     /\ op' = [op EXCEPT ![p] =
          IF ~createFromCollection(connected)
            THEN [call EXCEPT !.pc = "done", !.ret = NotConnected]
            ELSE [call EXCEPT !.pc = "done",
                    !.ret = Returned(NewBucket(fromCollectionOpts("docs", opts)))]]
     /\ docs' = [docs EXCEPT ![d].cfg = pluginOptsAfter(doc.cfg, opts)]
     /\ UNCHANGED <<connected, nextId, files, chunks, written>>

\* doc.type = value
SetTypeCall(d, value) ==
  /\ docs[d].val # value
  /\ docs' = [docs EXCEPT ![d].val = value]
  /\ UNCHANGED <<connected, nextId, files, chunks, op, written>>

InitNamed ==
  /\ connected = FALSE
  /\ nextId = 2
  /\ files = <<>>
  /\ chunks = {}
  /\ \E cfg \in NamedCfgs : docs = <<NewDoc(cfg, 1, NoValue)>>
  /\ op = [p \in {1, 2} |-> IdleOp]
  /\ written = {}

NamedGetBucket == \E p \in Callers, d \in DocIds : NamedGetBucketCall(p, d)
SetType == \E d \in DocIds, value \in TypeValues : SetTypeCall(d, value)

NextNamed == Connect \/ NamedGetBucket \/ SetType \/ Returns

SpecNamed == InitNamed /\ [][NextNamed]_vars

\* the bucket name the plugin options and the record's type stand for
DerivedName(cfg, type) ==
  CASE cfg.bucketName.isFn ->
         IF type \in {NoValue, ""} THEN DEFAULT_BUCKET_NAME ELSE type
    [] cfg.bucketName.str = "thumbs" -> "thumbs"
    [] cfg.bucketOpts.bucketName = "saveable" -> "saveable"
    [] OTHER -> DEFAULT_BUCKET_NAME

\* C22: every getBucket() call of a connected record yields a bucket named from
\* the record's state at the call: the bucketName string, or the value of the
\* bucketName function for the record ('fs' when it yields nothing), or else
\* bucketOpts.bucketName ('fs' by default); the call leaves the plugin's
\* options as they were.
C22_BucketPerCall ==
  [][\A p \in Callers :
       (Idle(p) /\ op'[p].kind = "getBucket" /\ op'[p].bucket)
       => LET d == op'[p].doc
          IN /\ op'[p].ret.status = "returned"
             /\ op'[p].ret.val.bucketName = DerivedName(docs[d].cfg, docs[d].val)
             /\ docs' = docs]_vars

\* C22 witness: two calls on one record of a model with a bucketName function,
\* one made when the type was not set and one after it became 'image'
C22_Witness ==
  \E p, q \in Callers :
    /\ op[p].kind = "getBucket" /\ op[q].kind = "getBucket"
    /\ op[p].doc = op[q].doc /\ docs[op[p].doc].cfg.bucketName.isFn
    /\ op[p].bucket /\ op[p].snap = <<NoValue>>
    /\ op[p].ret.val.bucketName = DEFAULT_BUCKET_NAME
    /\ op[q].bucket /\ op[q].snap = <<"image">>
    /\ op[q].ret.val.bucketName = "image"

----------------------------------------------------------------------------
(* Two callers deleting at the same time *)

\* a bucket after k writes of one chunk each, under the given filenames
StoredFiles(names) ==
  [i \in 1..Len(names) |-> NewFile(i, names[i], 1, 2 * i)]

StoredChunks(names) ==
  {[files_id |-> i, n |-> 0, data |-> "y"] : i \in 1..Len(names)}

InitDeleters ==
  /\ connected = TRUE
  /\ \E k \in 1..MaxIds : \E names \in [1..k -> FileNames] :
       /\ nextId = k + 1
       /\ files = StoredFiles(names)
       /\ chunks = StoredChunks(names)
       /\ written = {[id |-> i, data |-> <<"y">>] : i \in 1..k}
  /\ docs = <<>>
  /\ op = [p \in {1, 2} |-> IdleOp]

\* deleteByFilename(filename), without find options
DeleteAllByFilename ==
  \E p \in Callers, name \in FileNames : DeleteByFilenameCall(p, name, 0)

NextDeleters ==
  \/ DeleteAllByFilename \/ DeleteFetch \/ DeleteNext
  \/ DeleteById \/ DeleteDone \/ Returns

SpecDeleters == InitDeleters /\ [][NextDeleters]_vars

\* the delete calls a deleteByFilename has made
DeleteCalls(o) == Cardinality({i \in 1..Len(o.calls) : o.calls[i] = "delete"})

\* C23: a deleteByFilename whose k-th delete failed is rejected with that
\* delete's error; it made no delete call after the k-th, the k-1 records it
\* deleted before stay deleted, and their identifiers are not handed over.
C23_AbortsOnFirstFailure ==
  \A p \in Callers :
    LET o == op[p] IN
    /\ (o.kind = "deleteByFilename" /\ DeleteCalls(o) # Len(o.deleted))
       => Settled(o) /\ o.ret.status = "rejected"
    /\ (o.kind = "deleteByFilename" /\ Settled(o) /\ o.ret.status # "resolved")
       => /\ o.cursor # <<>>
          /\ o.ret = FileNotFound(Head(o.cursor))
          /\ o.ret.val = <<>>
          /\ DeleteCalls(o) = Len(o.deleted) + 1
          /\ \A i \in 1..Len(o.deleted) : o.deleted[i] \notin FileIds

\* C23 witness: the second delete of a call failed, with a record still stored
\* that the cursor had yet to yield
C23_Witness ==
  \E p \in Callers :
    /\ op[p].kind = "deleteByFilename" /\ Settled(op[p])
    /\ op[p].ret.status = "rejected" /\ Len(op[p].deleted) = 1
    /\ Len(op[p].cursor) = 2 /\ op[p].cursor[2] \in FileIds

\* the identifiers a deleteByFilename call has pushed to its list
DeletedBy(o) == IF o.kind = "deleteByFilename" THEN Range(o.deleted) ELSE {}

\* C26: of two interleaved deleteByFilename calls, a turn of the loop whose
\* record is still stored removes it and lists its identifier, and a turn whose
\* record another call removed rejects the call with the driver's delete
\* error; no identifier is listed twice or by both calls, and a call resolves
\* with the identifiers it removed.
C26_DeletedOnce ==
  [][\A p \in Callers :
       /\ (/\ op[p].kind = "deleteByFilename" /\ op[p].pc = "iterating"
           /\ op[p].cursor # <<>> /\ op'[p] # op[p])
          => LET id == Head(op[p].cursor)
             IN IF id \in FileIds
                  THEN /\ id \notin FileIds'
                       /\ op'[p].deleted = Append(op[p].deleted, id)
                       /\ ~Settled(op'[p])
                  ELSE /\ Settled(op'[p]) /\ op'[p].ret = FileNotFound(id)
                       /\ op'[p].ret.status = "rejected"
                       /\ files' = files
       /\ Cardinality(DeletedBy(op'[p])) = Len(op'[p].deleted)
       /\ \A q \in Callers \ {p} : DeletedBy(op'[p]) \cap DeletedBy(op'[q]) = {}
       /\ (/\ op'[p].kind = "deleteByFilename" /\ Settled(op'[p])
           /\ op'[p].ret.status = "resolved")
          => op'[p].ret.val = op'[p].deleted]_vars

\* C26 witness: one call resolved with the identifiers it removed, the other,
\* for the same filename, was rejected at a record the first had removed
C26_Witness ==
  \E p, q \in Callers :
    /\ op[p].kind = "deleteByFilename" /\ op[q].kind = "deleteByFilename"
    /\ op[p].filename = op[q].filename
    /\ op[p].ret.status = "resolved" /\ Len(op[p].ret.val) = 2
    /\ op[q].ret.status = "rejected" /\ op[q].ret.key \in DeletedBy(op[p])
    /\ Len(op[q].deleted) = 1

----------------------------------------------------------------------------
(* Reading through a File Record *)

\* a File Record's read() or createReadStream() on a connected model
OwnFileRead(o) ==
  /\ o.kind \in {"fileRead", "recordCreateReadStream"}
  /\ IsFile(docs[o.doc]) /\ o.hadDb

\* C24 (as claimed): a File Record's createReadStream() and read() open the
\* download by the record's own _id, whatever other revisions share its
\* filename, and read() resolves with the (non-empty) content written through
\* the record.
C24_ReadsOwnFile ==
  \A p \in Callers :
    LET o == op[p]
        d == docs[o.doc]
    IN  OwnFileRead(o)
        => /\ o.calls = <<"openDownloadStream">> /\ o.id = d._id /\ ~o.byName
           /\ (/\ o.kind = "fileRead" /\ Settled(o)
               /\ \E w \in written : w.id = d._id /\ w.data # <<>>)
              => /\ o.ret.status = "resolved"
                 /\ \E w \in written : w.id = d._id /\ o.ret.val = w.data

----------------------------------------------------------------------------
(* Writes of records whose save() may reject *)

NextSaves ==
  \/ Connect
  \/ RecordWrite \/ Chunk \/ Finish \/ RecordSave \/ RecordSaveFails
  \/ Returns

SpecSaves == InitRecords /\ [][NextSaves]_vars

\* the record's persisted document refers to the stored file `id`: by the saved
\* reference field, or by being the document of that id (a File Record's model
\* keeps its documents in the bucket's files collection, where the upload
\* inserted the file's document; a record with fileId '_id' refers by identity)
PersistedAs(d, id) ==
  IF IsFile(d) THEN d._id = id /\ id \in FileIds
  ELSE IF HasRefPath(d) THEN d.savedRef = id
  ELSE d.saved /\ getFileIdPath(d.cfg) = "_id" /\ d._id = id

\* a write of a record on a connected model settles
WriteSettles(p) ==
  /\ op'[p].kind \in {"docWrite", "fileWrite"} /\ op'[p].hadDb
  /\ op[p].pc # "done" /\ op'[p].pc = "done"

\* the write resolved, or its save rejected, as the claim has it
SaveOutcome(p) ==
  LET o == op[p]
      d == o.doc
  IN  /\ op'[p].ret.status = "resolved"
         => /\ o.pc = "finished" /\ o.id \in FileIds
            /\ docs'[d].saved
            /\ HasRefPath(docs[d]) => docs'[d].savedRef = o.id
      /\ (o.pc = "finished" /\ op'[p].ret.status # "resolved")
         => /\ op'[p].ret = SaveError /\ op'[p].ret.status = "rejected"
            /\ files' = files /\ chunks' = chunks /\ o.id \in FileIds'
            /\ docs'[d].saved = docs[d].saved
            /\ docs'[d].savedRef = docs[d].savedRef

\* C25 (as claimed): a record's write resolves only when the file was stored
\* and the record saved; when the save fails after the file was stored the
\* promise rejects with the save error, the file stays in the bucket, and no
\* persisted record references it.
C25_NoPersistedReference ==
  [][\A p \in Callers :
       WriteSettles(p)
       => /\ SaveOutcome(p)
          /\ (op[p].pc = "finished" /\ op'[p].ret.status # "resolved")
             => \A d \in DocIds : ~PersistedAs(docs'[d], op[p].id)]_vars

\* C25 (amended): a record's write resolves only when the file was stored and
\* the record saved; when the save fails after the file was stored the promise
\* rejects with the save error, the file stays in the bucket and the save
\* persisted nothing: no persisted reference field of a Referencing Record
\* points to the file.
C25_SaveFailureNoRollback ==
  [][\A p \in Callers :
       WriteSettles(p)
       => /\ SaveOutcome(p)
          /\ (op[p].pc = "finished" /\ op'[p].ret.status # "resolved")
             => \A d \in DocIds :
                  HasRefPath(docs'[d]) => ~PersistedAs(docs'[d], op[p].id)]_vars

\* C25 witness: the write of a Referencing Record stored its file, the save
\* failed, and the record in memory holds the reference that was not persisted
C25_Witness ==
  \E p \in Callers :
    LET o == op[p]
        d == docs[o.doc]
    IN  /\ o.kind = "docWrite" /\ Settled(o) /\ o.ret = SaveError
        /\ o.id \in FileIds /\ ContentOf(FileOf(o.id)) = o.data /\ o.data # <<>>
        /\ HasRefPath(d) /\ d.ref = o.id /\ d.savedRef # o.id /\ ~d.saved

====
